---- MODULE Spec2Model ----
(***************************************************************************)
(* FileConvertBot: the conversation controller of bot.py, the temp-file    *)
(* manager and the three converters, as a state machine.                   *)
(*                                                                         *)
(* One step of the machine is one Telegram update dispatched by the        *)
(* Application and handled to completion (run_polling processes updates    *)
(* one at a time), or the expiry of a conversation's inactivity timeout.   *)
(* Strings whose characters matter (file names, extensions) are sequences  *)
(* of one-character strings; temp-file paths are positive numbers.         *)
(***************************************************************************)
EXTENDS Integers, Sequences, FiniteSets, TLC

\* ---------------------------------------------------------------- bounds
NumUsers == 2
MaxFiles == 3
MaxLines == 4
MaxMb == 20

Users == 1..NumUsers

\* ------------------------------------------------------------- constants
START == 0
WAITING_FILE == 1
END == -1
None == -2
SizeLimit == 20 * 1024 * 1024

Kinds == {"image_to_pdf", "word_to_pdf", "pdf_to_word"}

\* callback_data of every inline button the bot ever sends
CallbackData == Kinds \cup {"restart"}

\* ------------------------------------------------------- string helpers
UpperCase == <<"A","B","C","D","E","F","G","H","I","J","K","L","M",
               "N","O","P","Q","R","S","T","U","V","W","X","Y","Z">>
LowerCase == <<"a","b","c","d","e","f","g","h","i","j","k","l","m",
               "n","o","p","q","r","s","t","u","v","w","x","y","z">>

lower(s) ==
    [i \in DOMAIN s |->
        IF \E k \in DOMAIN UpperCase : UpperCase[k] = s[i]
        THEN LowerCase[CHOOSE k \in DOMAIN UpperCase : UpperCase[k] = s[i]]
        ELSE s[i]]

\* os.path.splitext(p)[1] for a name without directory separators: the
\* text from the last dot on, unless only dots precede that dot.
splitext(p) ==
    LET dots == {i \in DOMAIN p : p[i] = "."}
    IN  IF dots = {} THEN <<>>
        ELSE LET dotIndex == CHOOSE i \in dots : \A j \in dots : j <= i
             IN  IF \E k \in 1..(dotIndex - 1) : p[k] # "."
                 THEN SubSeq(p, dotIndex, Len(p))
                 ELSE <<>>

jpg  == <<".","j","p","g">>
jpeg == <<".","j","p","e","g">>
png  == <<".","p","n","g">>
docx == <<".","d","o","c","x">>
pdf  == <<".","p","d","f">>

expected_extensions_wrong ==
    [image_to_pdf |-> {jpg, jpeg, png},
     word_to_pdf  |-> {docx, png, jpg},
     pdf_to_word  |-> {pdf}]

expected_extensions ==
    [image_to_pdf |-> {jpg, jpeg, png},
     word_to_pdf  |-> {docx},
     pdf_to_word  |-> {pdf}]

prompts ==
    [image_to_pdf |-> "send_image",
     word_to_pdf  |-> "send_docx",
     pdf_to_word  |-> "send_pdf"]

\* ------------------------------------------------------------- messages
\* What the bot sends: a tag for the text, and for the extension-mismatch
\* reply the two lists the text is formatted from.
Msg(text) == [text |-> text, expected |-> {}, received |-> <<>>]
InvalidFormat(expected, received) ==
    [text |-> "invalid_format", expected |-> expected, received |-> received]

\* ---------------------------------------------------------------- state
VARIABLES
    user_selections,   \* bot.py:32, a dict: user id -> callback data
    session,           \* ConversationHandler's state per user (END: none)
    files,             \* the temp files that exist on disk
    last,              \* the update being handled and what the handler did
    call               \* a converter or utility function called on its own

vars == <<user_selections, session, files, last, call>>


\* ------------------------------------------------------ temp_manager.py
\* cleanup_temp_files(file_paths) on the filesystem fs; os.remove raises
\* for the paths in failing, which the loop's except clause swallows.
RECURSIVE cleanup_temp_files_skip(_, _, _)
cleanup_temp_files_skip(file_paths, fs, failing) ==
    IF file_paths = <<>> THEN fs
    ELSE cleanup_temp_files_skip(Tail(file_paths), fs, failing)

RECURSIVE cleanup_temp_files_stop(_, _, _)
cleanup_temp_files_stop(file_paths, fs, failing) ==
    IF file_paths = <<>> THEN fs
    ELSE IF Head(file_paths) \in fs /\ Head(file_paths) \in failing THEN fs
    ELSE cleanup_temp_files_stop(Tail(file_paths), fs \ {Head(file_paths)}, failing)

RECURSIVE cleanup_temp_files(_, _, _)
cleanup_temp_files(file_paths, fs, failing) ==
    IF file_paths = <<>> THEN fs
    ELSE LET file_path == Head(file_paths)
             fs1 == IF file_path \in fs /\ file_path \notin failing
                    THEN fs \ {file_path}
                    ELSE fs
         IN  cleanup_temp_files(Tail(file_paths), fs1, failing)

\* ----------------------------------------------------------- converters
\* tempfile.NamedTemporaryFile(delete=False): a name no existing file has
fresh(fs) ==
    CHOOSE p \in 1..(Cardinality(fs) + 1) :
        p \notin fs /\ \A q \in 1..(p - 1) : q \in fs

\* A converter run on filesystem fs.
\*   fault = "read":  the input cannot be opened or parsed
\*   fault = "write": encoding, rendering or saving the output fails
\* The result is the returned path (None on failure) and the filesystem
\* afterwards.
Faults == {"none", "read", "write"}

Converted(ret, fs) == [ret |-> ret, fs |-> fs]

on_error_keep(has_output_path, output_path, fs) == Converted(None, fs)

\* the except clause the three converters share
on_error(has_output_path, output_path, fs) ==
    IF has_output_path /\ output_path \in fs
    THEN Converted(None, fs \ {output_path})
    ELSE Converted(None, fs)

convert_image_to_pdf(image_path, fs, fault) ==
    IF image_path \notin fs \/ fault = "read"
    THEN on_error(FALSE, None, fs)                   \* Image.open raised
    ELSE LET output_path == fresh(fs)
             fs1 == fs \cup {output_path}
         IN  IF fault = "write"
             THEN on_error(TRUE, output_path, fs1)
             ELSE Converted(output_path, fs1)

convert_word_to_pdf(word_path, fs, fault) ==
    IF word_path \notin fs \/ fault = "read"
    THEN on_error(FALSE, None, fs)                   \* Document() raised
    ELSE LET output_path == fresh(fs)
             fs1 == fs \cup {output_path}
         IN  IF fault = "write"
             THEN on_error(TRUE, output_path, fs1)
             ELSE Converted(output_path, fs1)

convert_pdf_to_word(pdf_path, fs, fault) ==
    LET output_path == fresh(fs)
        fs1 == fs \cup {output_path}
    IN  IF pdf_path \notin fs \/ fault \in {"read", "write"}
        THEN on_error(TRUE, output_path, fs1)
        ELSE Converted(output_path, fs1)

\* --------------------------------------------------------------- updates
\* What an update carries: its kind, the callback data of a pressed button,
\* and for an attachment the declared file name and size.
Update(kind, data, file_name, file_size) ==
    [kind |-> kind, data |-> data, file_name |-> file_name, file_size |-> file_size]

FileNames ==
    { <<"a",".","p","n","g">>,
      <<"a",".","D","o","c","x">>,
      <<"a",".","b",".","p","d","f">>,
      <<".","p","d","f">> }

FileSizes == {SizeLimit, SizeLimit + 1}

Documents == {Update("document", "", f, z) : f \in FileNames, z \in FileSizes}
Photos    == {Update("photo", "", <<>>, z) : z \in FileSizes}
Texts     == {Update("text", "", <<>>, 0)}
Messages  == Documents \cup Photos \cup Texts

\* What the Telegram side and the libraries do during one upload: all
\* calls succeed ("ok"), or the named one fails.  The calls follow one
\* another and the first failure ends the handling, so one name is enough.
Envs == {"ok", "get_file", "download", "read", "write", "send"}

\* ---------------------------------------------------- handle_file_upload
\* The outcome of one run of a handler: the state it returns (None when it
\* returns nothing or raised), the selections and filesystem afterwards,
\* the messages sent, and what the run read and created.
Outcome(ret, sel, fs, out, kind, ext, converter, input, output, raised) ==
    [ret |-> ret, sel |-> sel, fs |-> fs, out |-> out,
     kind |-> kind, ext |-> ext, converter |-> converter,
     input |-> input, output |-> output, raised |-> raised]

del_keep(sel, user_id) == sel

del_all(sel, user_id) == << >>

\* del user_selections[user_id]
del(sel, user_id) == [v \in (DOMAIN sel) \ {user_id} |-> sel[v]]

\* bot.py:146-151, the if/elif chain that picks the converter
converter_for(conversion_type) ==
    IF conversion_type = "image_to_pdf" THEN "convert_image_to_pdf"
    ELSE IF conversion_type = "word_to_pdf" THEN "convert_word_to_pdf"
    ELSE IF conversion_type = "pdf_to_word" THEN "convert_pdf_to_word"
    ELSE "none"

run_converter(converter, input_path, fs, fault) ==
    IF converter = "convert_image_to_pdf"
    THEN convert_image_to_pdf(input_path, fs, fault)
    ELSE IF converter = "convert_word_to_pdf"
    THEN convert_word_to_pdf(input_path, fs, fault)
    ELSE IF converter = "convert_pdf_to_word"
    THEN convert_pdf_to_word(input_path, fs, fault)
    ELSE Converted(None, fs)

process_file_reprompt(user_id, conversion_type, file_ext, input_path, env, sel, fs) ==
    LET converter == converter_for(conversion_type)
        c == run_converter(converter, input_path, fs,
                           IF env \in Faults THEN env ELSE "none")
        output_path == c.ret
    IN  IF output_path # None /\ output_path \in c.fs
        THEN IF env # "send"
             THEN Outcome(END, del(sel, user_id),
                          cleanup_temp_files(<<input_path, output_path>>, c.fs, {}),
                          <<Msg("processing"), Msg("document"), Msg("convert_another")>>,
                          conversion_type, file_ext, converter,
                          input_path, output_path, FALSE)
             ELSE Outcome(END, sel,
                          cleanup_temp_files(<<input_path>>, c.fs, {}),
                          <<Msg("processing"), Msg("conversion_failed_error")>>,
                          conversion_type, file_ext, converter,
                          input_path, output_path, FALSE)
        ELSE Outcome(WAITING_FILE, sel,
                     cleanup_temp_files(<<input_path>>, c.fs, {}),
                     <<Msg("processing"), Msg("conversion_failed")>>,
                     conversion_type, file_ext, converter,
                     input_path, output_path, FALSE)

\* bot.py:141-203: the inner try block, entered with the input downloaded
process_file(user_id, conversion_type, file_ext, input_path, env, sel, fs) ==
    LET converter == converter_for(conversion_type)
        c == run_converter(converter, input_path, fs,
                           IF env \in Faults THEN env ELSE "none")
        output_path == c.ret
    IN  IF output_path # None /\ output_path \in c.fs
        THEN IF env # "send"
             THEN Outcome(END, del(sel, user_id),
                          cleanup_temp_files(<<input_path, output_path>>, c.fs, {}),
                          <<Msg("processing"), Msg("document"), Msg("convert_another")>>,
                          conversion_type, file_ext, converter,
                          input_path, output_path, FALSE)
             \* send_document raised: the except clause of line 197
             ELSE Outcome(END, sel,
                          cleanup_temp_files(<<input_path>>, c.fs, {}),
                          <<Msg("processing"), Msg("conversion_failed_error")>>,
                          conversion_type, file_ext, converter,
                          input_path, output_path, FALSE)
        ELSE Outcome(END, sel,
                     cleanup_temp_files(<<input_path>>, c.fs, {}),
                     <<Msg("processing"), Msg("conversion_failed")>>,
                     conversion_type, file_ext, converter,
                     input_path, output_path, FALSE)

\* bot.py:125-139 and 205-210: the outer try block
download_file(user_id, conversion_type, file_ext, message, env, sel, fs) ==
    IF env = "get_file"
    THEN Outcome(END, sel, fs, <<Msg("download_failed")>>,
                 conversion_type, file_ext, "none", None, None, FALSE)
    ELSE IF message.file_size > 20 * 1024 * 1024
    THEN Outcome(WAITING_FILE, sel, fs, <<Msg("too_large")>>,
                 conversion_type, file_ext, "none", None, None, FALSE)
    ELSE LET input_path == fresh(fs)
             fs1 == fs \cup {input_path}
         IN  IF env = "download"
             THEN Outcome(END, sel, fs1, <<Msg("download_failed")>>,
                          conversion_type, file_ext, "none", input_path, None, FALSE)
             ELSE process_file(user_id, conversion_type, file_ext, input_path,
                               env, sel, fs1)

extension_allowed_any(file_ext, conversion_type) == TRUE

\* bot.py:117, the negation of the rejection test
extension_allowed(file_ext, conversion_type) ==
    file_ext \in expected_extensions[conversion_type]

\* bot.py:80-210
handle_file_upload(user_id, message, env, sel, fs) ==
    IF user_id \notin DOMAIN sel
    THEN Outcome(END, sel, fs, <<Msg("select_first")>>,
                 "", <<>>, "none", None, None, FALSE)
    ELSE LET conversion_type == sel[user_id]
         IN  IF message.kind \notin {"document", "photo"}
             THEN Outcome(WAITING_FILE, sel, fs, <<Msg("no_file")>>,
                          conversion_type, <<>>, "none", None, None, FALSE)
             ELSE LET file_ext == IF message.kind = "document"
                                  THEN lower(splitext(message.file_name))
                                  ELSE jpg
                  IN  IF conversion_type \notin DOMAIN expected_extensions
                      THEN \* KeyError at line 117
                           Outcome(None, sel, fs, <<>>,
                                   conversion_type, file_ext, "none", None, None, TRUE)
                      ELSE IF ~extension_allowed(file_ext, conversion_type)
                      THEN Outcome(WAITING_FILE, sel, fs,
                                   <<InvalidFormat(expected_extensions[conversion_type],
                                                   file_ext)>>,
                                   conversion_type, file_ext, "none", None, None, FALSE)
                      ELSE download_file(user_id, conversion_type, file_ext,
                                         message, env, sel, fs)

handle_conversion_selection_forget(user_id, data, sel, fs) ==
    IF data \in DOMAIN prompts
    THEN Outcome(WAITING_FILE, sel, fs, <<Msg(prompts[data])>>,
                 "", <<>>, "none", None, None, FALSE)
    ELSE Outcome(None, sel, fs, <<>>, "", <<>>, "none", None, None, TRUE)

\* bot.py:58-78
handle_conversion_selection(user_id, data, sel, fs) ==
    LET sel1 == [v \in (DOMAIN sel) \cup {user_id} |->
                    IF v = user_id THEN data ELSE sel[v]]
    IN  IF data \in DOMAIN prompts
        THEN Outcome(WAITING_FILE, sel1, fs, <<Msg(prompts[data])>>,
                     "", <<>>, "none", None, None, FALSE)
        ELSE \* KeyError at line 76
             Outcome(None, sel1, fs, <<>>,
                     "", <<>>, "none", None, None, TRUE)

\* bot.py:34-56
start(user_id, sel, fs) ==
    Outcome(START, sel, fs, <<Msg("menu")>>,
            "", <<>>, "none", None, None, FALSE)

\* bot.py:213-245: returns nothing, touches no state; the menu is shown by
\* editing the message or, if that fails, by a new message
restart_callback_handler(user_id, sel, fs) ==
    Outcome(None, sel, fs, <<Msg("menu")>>,
            "", <<>>, "none", None, None, FALSE)

\* no handler accepts the update: nothing runs
no_handler(user_id, sel, fs) ==
    Outcome(None, sel, fs, <<>>, "", <<>>, "none", None, None, FALSE)

\* ------------------------------------------------------------- dispatch
\* bot.py:260-274.  The Application offers an update to its handlers in
\* the order they were added and the first that accepts it handles it:
\* the ConversationHandler looks at the user's state (entry points when
\* there is none, else the state's handlers, then the fallbacks), and only
\* an update it does not accept reaches the separate restart handler.
is_start(update) == update.kind = "command" /\ update.data = "/start"

dispatch_uploads_everywhere(state, update) ==
    IF update.kind \in {"document", "photo"} THEN "handle_file_upload"
    ELSE IF is_start(update) THEN "start"
    ELSE IF state = START /\ update.kind = "callback"
    THEN "handle_conversion_selection"
    ELSE IF update.kind = "callback" /\ update.data = "restart"
    THEN "restart_callback_handler"
    ELSE "none"

dispatch(state, update) ==
    LET conv_handler ==
            IF state = END
            THEN IF is_start(update) THEN "start" ELSE "none"
            ELSE IF state = START /\ update.kind = "callback"
            THEN "handle_conversion_selection"
            ELSE IF state = WAITING_FILE /\ update.kind \in {"document", "photo"}
            THEN "handle_file_upload"
            ELSE IF is_start(update) THEN "start" ELSE "none"
    IN  IF conv_handler # "none" THEN conv_handler
        ELSE IF update.kind = "callback" /\ update.data = "restart"
        THEN "restart_callback_handler"
        ELSE "none"

\* The updates a user can send: /start, a message, or a press of a button.
\* The bot's keyboards stay in the chat, also across restarts of the bot,
\* so any of its buttons can be pressed at any time.
Commands  == {Update("command", "/start", <<>>, 0)}
Callbacks == {Update("callback", d, <<>>, 0) : d \in CallbackData}
Updates   == Commands \cup Messages \cup Callbacks

\* The record of one handled update: whose it was, what it carried, what
\* the environment did, the conversation state it met, the handler that
\* took it and the handler's outcome.
Last(user_id, update, env, state, handler, o) ==
    [user |-> user_id, update |-> update, env |-> env,
     state |-> state, handler |-> handler,
     out |-> o.out, kind |-> o.kind, ext |-> o.ext, converter |-> o.converter,
     input |-> o.input, output |-> o.output, raised |-> o.raised]

\* run_polling (bot.py:277) takes one update at a time and handles it to
\* completion: last is Idle while the Application waits for an update.
Idle == Last(0, Update("none", "", <<>>, 0), "ok", END, "none", no_handler(0, << >>, {}))

\* The effect of a handler's run o on an update of user_id: a handler that
\* raised or returned nothing leaves the conversation where it was.
Apply(user_id, update, env, handler, o) ==
    /\ user_selections' = o.sel
    /\ files' = o.fs
    /\ session' = IF o.raised \/ o.ret = None THEN session
                  ELSE [session EXCEPT ![user_id] = o.ret]
    /\ last' = Last(user_id, update, env, session[user_id], handler, o)
    /\ UNCHANGED call

\* no function of the converters or the utilities is being called
NoCall == [fn |-> "none"]

Init ==
    /\ user_selections = << >>
    /\ session = [u \in Users |-> END]
    /\ files = {}
    /\ last = Idle
    /\ call = NoCall

Start(u, update) ==
    /\ last = Idle
    /\ dispatch(session[u], update) = "start"
    /\ Apply(u, update, "ok", "start", start(u, user_selections, files))

Select(u, update) ==
    /\ last = Idle
    /\ dispatch(session[u], update) = "handle_conversion_selection"
    /\ Apply(u, update, "ok", "handle_conversion_selection",
             handle_conversion_selection(u, update.data, user_selections, files))

Upload(u, update) ==
    /\ last = Idle
    /\ dispatch(session[u], update) = "handle_file_upload"
    /\ Cardinality(files) + 2 <= MaxFiles
    /\ \E env \in Envs :
          Apply(u, update, env, "handle_file_upload",
                handle_file_upload(u, update, env, user_selections, files))

Restart(u, update) ==
    /\ last = Idle
    /\ dispatch(session[u], update) = "restart_callback_handler"
    /\ Apply(u, update, "ok", "restart_callback_handler",
             restart_callback_handler(u, user_selections, files))

Unhandled(u, update) ==
    /\ last = Idle
    /\ dispatch(session[u], update) = "none"
    /\ Apply(u, update, "ok", "none", no_handler(u, user_selections, files))

\* conversation_timeout=300 (bot.py:269): a conversation left alone for
\* 300 s is ended by the ConversationHandler; no handler of the bot runs.
Timeout(u) ==
    /\ last = Idle
    /\ session[u] # END
    /\ session' = [session EXCEPT ![u] = END]
    /\ last' = Last(u, Update("timeout", "", <<>>, 0), "ok", session[u], "timeout",
                    no_handler(u, user_selections, files))
    /\ UNCHANGED <<user_selections, files, call>>

\* the handler has returned; the Application waits for the next update
Poll ==
    /\ last # Idle
    /\ last' = Idle
    /\ UNCHANGED <<user_selections, session, files, call>>

Next ==
    \/ \E u \in Users :
        \/ \E update \in Commands : Start(u, update)
        \/ \E update \in Callbacks : Select(u, update)
        \/ \E update \in Messages : Upload(u, update)
        \/ \E update \in Callbacks : Restart(u, update)
        \/ \E update \in Updates : Unhandled(u, update)
        \/ Timeout(u)
    \/ Poll

Spec == Init /\ [][Next]_vars

\* ------------------------------------------- pdf_to_word.py, the document
\* A line of text is a sequence of characters; str.strip() drops the
\* whitespace at both ends.
Whitespace == {" "}

RECURSIVE lstrip(_)
lstrip(s) ==
    IF s # <<>> /\ Head(s) \in Whitespace THEN lstrip(Tail(s)) ELSE s

RECURSIVE rstrip(_)
rstrip(s) ==
    IF s # <<>> /\ s[Len(s)] \in Whitespace
    THEN rstrip(SubSeq(s, 1, Len(s) - 1))
    ELSE s

strip(s) == rstrip(lstrip(s))

\* page.extract_text() of a page, already split at '\n' (pdf_to_word.py:37):
\* text.split('\n') has at least one element, and text.strip() is empty
\* exactly when every line is blank.
text_strip_empty(paragraphs) ==
    \A i \in DOMAIN paragraphs : strip(paragraphs[i]) = <<>>

\* the inner loop, pdf_to_word.py:39-45, from the i-th line of a page on:
\* the test for the end of the page compares the line's text with the
\* text of the page's last line
RECURSIVE add_paragraphs(_, _, _, _, _)
add_paragraphs(doc, paragraphs, i, page_num, num_pages) ==
    IF i > Len(paragraphs) THEN doc
    ELSE LET paragraph_text == paragraphs[i]
             doc1 == IF strip(paragraph_text) # <<>>
                     THEN Append(doc, strip(paragraph_text))
                     ELSE doc
             doc2 == IF paragraph_text = paragraphs[Len(paragraphs)]
                        /\ page_num < num_pages - 1
                     THEN Append(doc1, <<>>)
                     ELSE doc1
         IN  add_paragraphs(doc2, paragraphs, i + 1, page_num, num_pages)

\* the outer loop, pdf_to_word.py:31-45, from page page_num (0-based) on
RECURSIVE add_pages(_, _, _)
add_pages(doc, pages, page_num) ==
    IF page_num >= Len(pages) THEN doc
    ELSE LET paragraphs == pages[page_num + 1]
             doc1 == IF text_strip_empty(paragraphs) THEN doc
                     ELSE add_paragraphs(doc, paragraphs, 1, page_num, Len(pages))
         IN  add_pages(doc1, pages, page_num + 1)

\* the paragraphs of the Word document convert_pdf_to_word saves
document_paragraphs(pages) == add_pages(<<>>, pages, 0)

\* The PDFs given to the converter: up to MaxLines lines of text, cut
\* into pages after any of the lines.
TextLines == {<<>>, <<" ">>, <<"a">>, <<" ", "b", " ">>}

RECURSIVE paginate(_, _, _, _)
paginate(lines, cuts, i, page) ==
    IF i > Len(lines) THEN <<>>
    ELSE IF i \in cuts \/ i = Len(lines)
    THEN <<Append(page, lines[i])>> \o paginate(lines, cuts, i + 1, <<>>)
    ELSE paginate(lines, cuts, i + 1, Append(page, lines[i]))

PdfDocuments ==
    UNION { UNION { { paginate(lines, cuts, 1, <<>>) : cuts \in SUBSET (1..(n - 1)) }
                    : lines \in [1..n -> TextLines] }
            : n \in 0..MaxLines }

\* The bot itself is at rest while a function is called on its own.
AtRest ==
    /\ user_selections = << >>
    /\ session = [u \in Users |-> END]
    /\ files = {}
    /\ last = Idle

\* convert_pdf_to_word called on a readable PDF, for the document it saves
InitPdfToWord ==
    /\ AtRest
    /\ call \in {[fn |-> "convert_pdf_to_word", pages |-> d,
                  returned |-> FALSE, paragraphs |-> <<>>] : d \in PdfDocuments}

SavePdfToWord ==
    /\ call.fn = "convert_pdf_to_word"
    /\ ~call.returned
    /\ call' = [call EXCEPT !.returned = TRUE,
                            !.paragraphs = document_paragraphs(call.pages)]
    /\ UNCHANGED <<user_selections, session, files, last>>

NextPdfToWord == SavePdfToWord

SpecPdfToWord == InitPdfToWord /\ [][NextPdfToWord]_vars

\* ------------------------------------------ the converters on their own
\* image_to_pdf.py:19-22: the colour mode of img after the with block;
\* an indexed, alpha or luminance-alpha image is converted to RGB
ImageModes == {"1", "L", "RGB", "CMYK", "P", "LA", "RGBA"}

img(mode) == IF mode \in {"RGBA", "LA", "P"} THEN "RGB" ELSE mode

\* image_to_pdf.py:30: image_file is image_path opened anew, the uploaded
\* file as it is on disk
image_file(mode) == [data |-> "file", mode |-> mode]

\* image_to_pdf.py:31: what img2pdf.convert is called with
img2pdf_convert(mode) == image_file(mode)

\* A converter called with a path on a disk holding any of the files
\* 1..MaxFiles; the input may be missing, unreadable, or impossible to
\* encode or save.
Converters ==
    {"convert_image_to_pdf", "convert_word_to_pdf", "convert_pdf_to_word"}

ConverterCall(fn, path, fault, mode) ==
    [fn |-> fn, path |-> path, fault |-> fault, mode |-> mode,
     returned |-> FALSE, ret |-> None, before |-> {}, encoded |-> None]

InitConverters ==
    /\ user_selections = << >>
    /\ session = [u \in Users |-> END]
    /\ last = Idle
    /\ files \in SUBSET (1..MaxFiles)
    /\ call \in {ConverterCall("convert_image_to_pdf", p, f, m) :
                    p \in 1..MaxFiles, f \in Faults, m \in ImageModes}
           \cup {ConverterCall(fn, p, f, "") :
                    fn \in Converters \ {"convert_image_to_pdf"},
                    p \in 1..MaxFiles, f \in Faults}

\* the converter returns: its result, the disk it leaves
Return(c, encoded) ==
    /\ files' = c.fs
    /\ call' = [call EXCEPT !.returned = TRUE, !.ret = c.ret,
                            !.before = files, !.encoded = encoded]
    /\ UNCHANGED <<user_selections, session, last>>

ConvertImageToPdf ==
    /\ call.fn = "convert_image_to_pdf"
    /\ ~call.returned
    /\ LET c == convert_image_to_pdf(call.path, files, call.fault)
       IN  Return(c, IF c.ret # None THEN img2pdf_convert(call.mode) ELSE None)

ConvertWordToPdf ==
    /\ call.fn = "convert_word_to_pdf"
    /\ ~call.returned
    /\ Return(convert_word_to_pdf(call.path, files, call.fault), None)

ConvertPdfToWord ==
    /\ call.fn = "convert_pdf_to_word"
    /\ ~call.returned
    /\ Return(convert_pdf_to_word(call.path, files, call.fault), None)

NextConverters ==
    \/ ConvertImageToPdf
    \/ ConvertWordToPdf
    \/ ConvertPdfToWord

SpecConverters == InitConverters /\ [][NextConverters]_vars

\* ------------------------------------- cleanup_temp_files on its own
\* Any list of up to MaxFiles paths, repeats included, on a disk holding
\* any of the files 1..MaxFiles, any of which may refuse to be deleted.
PathLists == UNION { [1..n -> 1..MaxFiles] : n \in 0..MaxFiles }

InitCleanup ==
    /\ user_selections = << >>
    /\ session = [u \in Users |-> END]
    /\ last = Idle
    /\ files \in SUBSET (1..MaxFiles)
    /\ call \in {[fn |-> "cleanup_temp_files", file_paths |-> l, failing |-> x,
                  returned |-> FALSE, before |-> {}] :
                    l \in PathLists, x \in SUBSET (1..MaxFiles)}

CleanupTempFiles ==
    /\ call.fn = "cleanup_temp_files"
    /\ ~call.returned
    /\ files' = cleanup_temp_files(call.file_paths, files, call.failing)
    /\ call' = [call EXCEPT !.returned = TRUE, !.before = files]
    /\ UNCHANGED <<user_selections, session, last>>

NextCleanup == CleanupTempFiles

SpecCleanup == InitCleanup /\ [][NextCleanup]_vars

\* ------------------------------------------------- file_validation.py
\* size_bytes / (1024 * 1024) is a true division: the quotient keeps its
\* fraction.  Dividing by a power of two is exact in floating point for
\* every size below 2^53 bytes, so size_mb is the whole megabytes and the
\* bytes left over.
true_div(size_bytes, divisor) ==
    [whole |-> size_bytes \div divisor, rest |-> size_bytes % divisor]

\* q <= n for a quotient q and an integer n
quotient_le(q, n) == q.whole < n \/ (q.whole = n /\ q.rest = 0)

validate_file_size_floor(size_bytes, max_size_mb) ==
    (size_bytes \div (1024 * 1024)) <= max_size_mb

\* validate_file_size, given what os.path.getsize(file_path) returns
validate_file_size(size_bytes, max_size_mb) ==
    LET size_mb == true_div(size_bytes, 1024 * 1024)
    IN  quotient_le(size_mb, max_size_mb)

\* file sizes at and next to every whole number of megabytes up to MaxMb,
\* and limits from -1 to MaxMb
SizesInBytes ==
    {z \in {k * 1024 * 1024 + d : k \in 0..MaxMb, d \in {-1, 0, 1, 524288}} : z >= 0}

LimitsInMb == -1..MaxMb

InitValidate ==
    /\ AtRest
    /\ call \in {[fn |-> "validate_file_size", size_bytes |-> z, max_size_mb |-> m,
                  returned |-> FALSE, ret |-> FALSE] :
                    z \in SizesInBytes, m \in LimitsInMb}

ValidateFileSize ==
    /\ call.fn = "validate_file_size"
    /\ ~call.returned
    /\ call' = [call EXCEPT !.returned = TRUE,
                            !.ret = validate_file_size(call.size_bytes, call.max_size_mb)]
    /\ UNCHANGED <<user_selections, session, files, last>>

NextValidate == ValidateFileSize

SpecValidate == InitValidate /\ [][NextValidate]_vars

\* =============================================================== claims
\* The allow-list and the converter of each conversion kind, as the
\* specification states them.
AllowList ==
    [image_to_pdf |-> {jpg, jpeg, png},
     word_to_pdf  |-> {docx},
     pdf_to_word  |-> {pdf}]

ConverterOf ==
    [image_to_pdf |-> "convert_image_to_pdf",
     word_to_pdf  |-> "convert_word_to_pdf",
     pdf_to_word  |-> "convert_pdf_to_word"]

\* the lower-cased extension of an uploaded file, '.jpg' for a photo
UploadedExt(update) ==
    IF update.kind = "photo" THEN jpg ELSE lower(splitext(update.file_name))

\* the messages of record l that carry the text
SentIn(l, text) == {i \in DOMAIN l.out : l.out[i].text = text}

IsUpload(l) == l.handler = "handle_file_upload"

\* C1: whenever handle_file_upload invokes a converter, the uploaded file's
\* lower-cased extension is in the allow-list of the kind recorded for that
\* user in user_selections when the update arrives, and the converter
\* invoked is the one of that kind.
C1_ConverterOnlyOnAllowedExtension ==
    [][ last'.converter # "none" =>
          /\ IsUpload(last')
          /\ last'.user \in DOMAIN user_selections
          /\ user_selections[last'.user] \in Kinds
          /\ UploadedExt(last'.update) \in AllowList[user_selections[last'.user]]
          /\ last'.converter = ConverterOf[user_selections[last'.user]] ]_vars

\* a converter ran on an upper-case spelled .Docx document
C1_Witness ==
    /\ last.converter = "convert_word_to_pdf"
    /\ last.update.file_name = <<"a",".","D","o","c","x">>
    /\ last.kind = "word_to_pdf"

\* C2: an upload in WAITING_FILE of a file with an allowed extension and
\* size whose download, conversion and delivery all succeed sends the
\* converted document exactly once, leaves neither the input nor the
\* output temp file on disk, removes the user's entry from user_selections,
\* offers the restart control and ends the session.
C2_SuccessfulConversion ==
    [][ ( /\ IsUpload(last')
          /\ last'.env = "ok"
          /\ session[last'.user] = WAITING_FILE
          /\ last'.user \in DOMAIN user_selections
          /\ user_selections[last'.user] \in Kinds
          /\ UploadedExt(last'.update) \in AllowList[user_selections[last'.user]]
          /\ last'.update.file_size <= SizeLimit )
        =>
        ( /\ last'.converter = ConverterOf[user_selections[last'.user]]
          /\ Cardinality(SentIn(last', "document")) = 1
          /\ last'.input # None /\ last'.input \notin files'
          /\ last'.output # None /\ last'.output \notin files'
          /\ files' = files
          /\ last'.user \notin DOMAIN user_selections'
          /\ SentIn(last', "convert_another") # {}
          /\ session'[last'.user] = END ) ]_vars

\* a .png was converted and delivered for image_to_pdf
C2_Witness ==
    /\ IsUpload(last)
    /\ last.env = "ok"
    /\ last.kind = "image_to_pdf"
    /\ last.ext = png
    /\ SentIn(last, "document") # {}
    /\ last.user \notin DOMAIN user_selections
    /\ session[last.user] = END

\* C3: a press of the restart control, in any state, leaves the user
\* without a pending selection, shows the menu and puts the session in
\* START.
C3_RestartClearsAndReturnsToStart ==
    (last.update.kind = "callback" /\ last.update.data = "restart")
    => /\ last.user \notin DOMAIN user_selections
       /\ SentIn(last, "menu") # {}
       /\ session[last.user] = START

\* C4: after any conversion attempt of handle_file_upload (the converter
\* returned a path or None, delivery succeeded or failed), once the handler
\* has returned neither the input nor the output temp file of the request
\* exists.
C4_NoTempFileAfterConversionAttempt ==
    (IsUpload(last) /\ last.converter # "none")
    => /\ last.input \notin files
       /\ last.output \notin files

\* C5: on every failure path of handle_file_upload (anything but a
\* delivered conversion), every temp file created for the request is
\* deleted before the handler returns: the files on disk afterwards are
\* among those that were there before.
C5_FailurePathsLeaveNoTempFile ==
    [][ (IsUpload(last') /\ SentIn(last', "document") = {})
        => files' \subseteq files ]_vars

\* C6 as claimed: a user whose session has ended has no entry in
\* user_selections.
C6_NoEntryWithoutSession ==
    \A u \in Users : session[u] = END => u \notin DOMAIN user_selections

\* a delivered conversion: the document and the restart control were sent
Delivered(l) == IsUpload(l) /\ SentIn(l, "document") # {}

\* C6 as amended: an entry is inserted or overwritten only when
\* handle_conversion_selection handles a button press of that user, and is
\* removed when, and only when, a conversion of that user was delivered; a
\* conversion failure, a download failure and the timeout end the session
\* with the entry left in place.
C6_EntryRemovedOnlyOnDelivery ==
    [][ \A u \in Users :
          /\ (u \in DOMAIN user_selections /\ u \notin DOMAIN user_selections')
                => (Delivered(last') /\ last'.user = u)
          /\ (Delivered(last') /\ last'.user = u)
                => u \notin DOMAIN user_selections'
          /\ ( \/ (u \notin DOMAIN user_selections /\ u \in DOMAIN user_selections')
               \/ (u \in DOMAIN user_selections /\ u \in DOMAIN user_selections'
                     /\ user_selections'[u] # user_selections[u]) )
                => ( /\ last'.handler = "handle_conversion_selection"
                     /\ last'.user = u
                     /\ user_selections'[u] = last'.update.data )
          /\ ( /\ last'.user = u
               /\ u \in DOMAIN user_selections
               /\ session[u] # END /\ session'[u] = END
               /\ ~Delivered(last') )
                => (u \in DOMAIN user_selections'
                      /\ user_selections'[u] = user_selections[u]) ]_vars

\* a failed conversion ended the session and the entry is still there
C6_Witness ==
    /\ IsUpload(last)
    /\ SentIn(last, "conversion_failed") # {}
    /\ session[last.user] = END
    /\ last.user \in DOMAIN user_selections
    /\ user_selections[last.user] = last.kind

\* C7: in WAITING_FILE, an uploaded document or photo whose extension is
\* not in the allow-list of the recorded kind gets the reply naming the
\* expected and the received extensions; no converter is invoked, no temp
\* file is created, user_selections is unchanged and the session stays in
\* WAITING_FILE.
C7_ExtensionMismatchKeepsWaiting ==
    [][ ( /\ last'.update.kind \in {"document", "photo"}
          /\ last'.user \in Users
          /\ session[last'.user] = WAITING_FILE
          /\ last'.user \in DOMAIN user_selections
          /\ user_selections[last'.user] \in Kinds
          /\ UploadedExt(last'.update) \notin AllowList[user_selections[last'.user]] )
        =>
        ( /\ last'.out = <<InvalidFormat(AllowList[user_selections[last'.user]],
                                         UploadedExt(last'.update))>>
          /\ last'.converter = "none"
          /\ last'.input = None /\ last'.output = None
          /\ files' = files
          /\ user_selections' = user_selections
          /\ session'[last'.user] = WAITING_FILE ) ]_vars

\* word_to_pdf was selected and a .png was uploaded
C7_Witness ==
    /\ IsUpload(last)
    /\ last.kind = "word_to_pdf"
    /\ last.update.file_name = <<"a",".","p","n","g">>
    /\ last.out = <<InvalidFormat({docx}, png)>>
    /\ session[last.user] = WAITING_FILE
    /\ user_selections[last.user] = "word_to_pdf"

\* the converter ran and no document was delivered: the converter returned
\* None, or the inner try block raised
ConversionFailed(l) ==
    IsUpload(l) /\ l.converter # "none" /\ SentIn(l, "document") = {}

\* C8: when a conversion fails the bot sends one conversion-failed message
\* and no document, the input temp file is gone and the session has
\* ended; and no retry happens: a converter is invoked for a
\* user only on an upload that meets the session in WAITING_FILE, a session
\* that has ended is left only by /start, which leads to START, and
\* WAITING_FILE is entered only from START by a press of a kind's button
\* that records that kind.
C8_FailureIsTerminal ==
    /\ [](ConversionFailed(last) =>
            /\ Cardinality(SentIn(last, "conversion_failed")
                             \cup SentIn(last, "conversion_failed_error")) = 1
            /\ (last.output = None => SentIn(last, "conversion_failed") # {})
            /\ last.input # None /\ last.input \notin files
            /\ session[last.user] = END)
    /\ [][ /\ last'.converter # "none" =>
                (IsUpload(last') /\ session[last'.user] = WAITING_FILE)
           /\ \A u \in Users :
                /\ (session[u] = END /\ session'[u] # END) =>
                      ( /\ last'.handler = "start" /\ last'.user = u
                        /\ is_start(last'.update)
                        /\ session'[u] = START )
                /\ (session[u] # WAITING_FILE /\ session'[u] = WAITING_FILE) =>
                      ( /\ session[u] = START
                        /\ last'.handler = "handle_conversion_selection"
                        /\ last'.user = u
                        /\ last'.update.data \in Kinds
                        /\ user_selections'[u] = last'.update.data ) ]_vars

\* convert_pdf_to_word failed on an unreadable PDF
C8_Witness ==
    /\ ConversionFailed(last)
    /\ last.converter = "convert_pdf_to_word"
    /\ last.output = None
    /\ last.env = "read"
    /\ SentIn(last, "conversion_failed") # {}
    /\ session[last.user] = END

\* C9: in WAITING_FILE, a message with neither document nor photo leaves
\* the session in WAITING_FILE and is answered with the no-file message.
C9_NoFileMessage ==
    (last.update.kind = "text" /\ last.state = WAITING_FILE)
    => /\ session[last.user] = WAITING_FILE
       /\ SentIn(last, "no_file") # {}

\* C10: the inactivity timeout ends the user's session and leaves
\* user_selections as it is, and the entry left behind is never used: while
\* the session is ended or in START no converter is invoked for the user,
\* an ended session is left only by /start, WAITING_FILE is entered only by
\* a button press handled in START that overwrites the entry with the kind
\* pressed, and the entry a converter is invoked with is the one that
\* press recorded (it does not change while the session waits for a file).
C10_OrphanedEntryUnreachable ==
    [][ \A u \in Users :
          /\ (last'.handler = "timeout" /\ last'.user = u) =>
                (session[u] # END /\ session'[u] = END
                   /\ user_selections' = user_selections)
          /\ (session[u] \in {END, START} /\ last'.user = u) =>
                last'.converter = "none"
          /\ (session[u] = END /\ session'[u] # END) =>
                (last'.handler = "start" /\ last'.user = u /\ session'[u] = START)
          /\ (session[u] = START /\ session'[u] = WAITING_FILE) =>
                ( /\ last'.handler = "handle_conversion_selection"
                  /\ last'.user = u
                  /\ u \in DOMAIN user_selections'
                  /\ user_selections'[u] = last'.update.data
                  /\ last'.update.data \in Kinds )
          /\ (session[u] = WAITING_FILE /\ session'[u] = WAITING_FILE) =>
                (u \in DOMAIN user_selections /\ u \in DOMAIN user_selections'
                   /\ user_selections'[u] = user_selections[u])
          /\ (last'.converter # "none" /\ last'.user = u) =>
                (session[u] = WAITING_FILE /\ u \in DOMAIN user_selections
                   /\ last'.kind = user_selections[u]) ]_vars

\* a session timed out while waiting for a file; the entry is still there
C10_Witness ==
    /\ last.handler = "timeout"
    /\ last.state = WAITING_FILE
    /\ session[last.user] = END
    /\ last.user \in DOMAIN user_selections

\* C11: every value stored in user_selections is one of the three
\* conversion kinds, and a button press handled in START (whichever button
\* it is, the 'restart' button of an earlier conversion included) has
\* recorded such a kind and moved the session to WAITING_FILE.
C11_SelectionsAreKinds ==
    /\ \A u \in DOMAIN user_selections : user_selections[u] \in Kinds
    /\ last.handler = "handle_conversion_selection" =>
          /\ last.state = START
          /\ last.update.data \in Kinds
          /\ last.user \in DOMAIN user_selections
          /\ user_selections[last.user] = last.update.data
          /\ session[last.user] = WAITING_FILE

\* C12: in WAITING_FILE, an uploaded file with an allowed extension and a
\* declared size above 20 MB is answered with the size-limit message, no
\* temp file is created, no converter is invoked, the pending selection is
\* kept and the session stays in WAITING_FILE; a file of exactly
\* 20*1024*1024 bytes is not rejected for its size.
C12_OversizeFileRejected ==
    [][ ( /\ IsUpload(last')
          /\ session[last'.user] = WAITING_FILE
          /\ last'.user \in DOMAIN user_selections
          /\ user_selections[last'.user] \in Kinds
          /\ UploadedExt(last'.update) \in AllowList[user_selections[last'.user]] )
        =>
        ( /\ last'.update.file_size > 20 * 1024 * 1024 =>
                /\ SentIn(last', "too_large") # {}
                /\ files' = files
                /\ last'.input = None
                /\ last'.converter = "none"
                /\ user_selections' = user_selections
                /\ session'[last'.user] = WAITING_FILE
          /\ last'.update.file_size = 20 * 1024 * 1024 =>
                SentIn(last', "too_large") = {} ) ]_vars

\* the non-blank lines of a page, stripped, in order
HasText(line) == strip(line) # <<>>

NonBlankLines(page) ==
    LET kept == SelectSeq(page, HasText)
    IN  [i \in DOMAIN kept |-> strip(kept[i])]

\* the paragraphs the specification asks for: every page's non-blank lines
\* and one empty paragraph after each page but the last; a page without
\* text contributes nothing
RECURSIVE PagesInOrder(_, _)
PagesInOrder(pages, i) ==
    IF i > Len(pages) THEN <<>>
    ELSE NonBlankLines(pages[i])
         \o (IF i < Len(pages) /\ NonBlankLines(pages[i]) # <<>>
             THEN << <<>> >> ELSE <<>>)
         \o PagesInOrder(pages, i + 1)

\* C13: the paragraphs convert_pdf_to_word saves are the non-blank lines of
\* every page, stripped and in order, with exactly one empty paragraph
\* after each page except the last and none anywhere else, also when an
\* earlier line of a page has the text of the page's last line; a page
\* without text adds no paragraph.
C13_ParagraphsFollowPages ==
    (call.fn = "convert_pdf_to_word" /\ call.returned)
    => call.paragraphs = PagesInOrder(call.pages, 1)

\* C14: a converter that fails at any step (unreadable input, encoding,
\* rendering or saving error) returns None and leaves no output temp file:
\* the disk is as it was before the call; a converter that returns a path
\* returns the path of a file that exists and that it created.
C14_ConverterFailsCleanly ==
    (call.fn \in Converters /\ call.returned) =>
        /\ (call.path \notin call.before \/ call.fault # "none") =>
                (call.ret = None /\ files = call.before)
        /\ call.ret # None =>
                (call.ret \in files /\ call.ret \notin call.before
                   /\ files = call.before \cup {call.ret})

\* convert_pdf_to_word, which creates its output file first, failed on an
\* unreadable PDF and removed the output file again
C14_Witness ==
    /\ call.fn = "convert_pdf_to_word"
    /\ call.returned
    /\ call.fault = "read"
    /\ call.path \in call.before
    /\ call.ret = None
    /\ files = call.before
    /\ files # {}

\* C15: when the image's colour mode is P, RGBA or LA the data handed to the
\* PDF encoder is the image converted to RGB and not the bytes of the
\* original file; for every other mode it is the original image.
C15_EncoderGetsRgb ==
    (call.fn = "convert_image_to_pdf" /\ call.returned /\ call.ret # None) =>
        IF call.mode \in {"P", "RGBA", "LA"}
        THEN call.encoded.mode = "RGB" /\ call.encoded.data # "file"
        ELSE call.encoded.mode = call.mode

\* the paths a list names
Listed(file_paths) == {file_paths[i] : i \in DOMAIN file_paths}

\* C16: cleanup_temp_files attempts every path of the list: a missing file
\* or a deletion error on one path does not stop the later paths from being
\* deleted; afterwards no listed path whose deletion did not fail exists,
\* and no file outside the list was removed (a file whose deletion failed
\* is still there).
C16_CleanupIsBestEffort ==
    (call.fn = "cleanup_temp_files" /\ call.returned) =>
        /\ \A p \in Listed(call.file_paths) : p \notin call.failing => p \notin files
        /\ \A p \in call.before : p \notin Listed(call.file_paths) => p \in files
        /\ files \subseteq call.before
        /\ files = call.before \ (Listed(call.file_paths) \ call.failing)

\* the first path is missing, the second cannot be deleted, and the third
\* was deleted all the same; a file outside the list is still there
C16_Witness ==
    /\ call.fn = "cleanup_temp_files"
    /\ call.returned
    /\ Len(call.file_paths) = 3
    /\ call.file_paths[1] \notin call.before
    /\ call.file_paths[2] \in call.before /\ call.file_paths[2] \in call.failing
    /\ call.file_paths[3] \in call.before /\ call.file_paths[3] \notin files
    /\ call.file_paths[2] \in files

\* C17: validate_file_size returns true exactly when the file's size in
\* bytes is at most max_size_mb * 1024 * 1024: a file of exactly the limit
\* passes and a file one byte above the limit does not.
C17_SizeWithinLimit ==
    (call.fn = "validate_file_size" /\ call.returned) =>
        (call.ret <=> call.size_bytes <= call.max_size_mb * 1024 * 1024)

\* a file one byte above the 20 MB limit was refused
C17_Witness ==
    /\ call.fn = "validate_file_size"
    /\ call.returned
    /\ call.max_size_mb = 20
    /\ call.size_bytes = 20 * 1024 * 1024 + 1
    /\ call.ret = FALSE

\* the run of the handler that takes the update, on the given selections
\* and disk
HandlerRun(handler, user_id, update, env, sel, fs) ==
    CASE handler = "start" -> start(user_id, sel, fs)
      [] handler = "handle_conversion_selection" ->
            handle_conversion_selection(user_id, update.data, sel, fs)
      [] handler = "handle_file_upload" ->
            handle_file_upload(user_id, update, env, sel, fs)
      [] handler = "restart_callback_handler" ->
            restart_callback_handler(user_id, sel, fs)
      [] OTHER -> no_handler(user_id, sel, fs)

\* what user_selections holds for one user
Own(sel, user_id) == [v \in (DOMAIN sel) \cap {user_id} |-> sel[v]]

\* C18: handling an update of user A changes neither the entry of another
\* user B in user_selections, nor B's session state, nor any temp file that
\* was on disk before (B's included); and what A gets (the handler taken,
\* the messages, the converter, A's entry and session afterwards, the
\* number of files left behind) is what the same update gives when only
\* A's entry and no other user's files exist.
C18_UsersDoNotInterfere ==
    [][ last'.user \in Users =>
          LET a == last'.user
          IN  /\ \A b \in Users \ {a} :
                    /\ session'[b] = session[b]
                    /\ (b \in DOMAIN user_selections') <=> (b \in DOMAIN user_selections)
                    /\ b \in DOMAIN user_selections =>
                          user_selections'[b] = user_selections[b]
              /\ files \subseteq files'
              /\ last'.handler # "timeout" =>
                    /\ last'.handler = dispatch(session[a], last'.update)
                    /\ \A alone \in {HandlerRun(last'.handler, a, last'.update, last'.env,
                                                Own(user_selections, a), {})} :
                          /\ last'.out = alone.out
                          /\ last'.converter = alone.converter
                          /\ last'.raised = alone.raised
                          /\ (a \in DOMAIN user_selections') <=> (a \in DOMAIN alone.sel)
                          /\ a \in DOMAIN user_selections' =>
                                user_selections'[a] = alone.sel[a]
                          /\ session'[a] = IF alone.raised \/ alone.ret = None
                                           THEN session[a] ELSE alone.ret
                          /\ Cardinality(files' \ files) = Cardinality(alone.fs) ]_vars

\* A's conversion was delivered and A's entry removed while B, with an
\* orphaned temp file of an earlier failed download on disk, waits for a
\* file with its own entry
C18_Witness ==
    /\ Delivered(last)
    /\ last.user \notin DOMAIN user_selections
    /\ files # {}
    /\ \E b \in Users \ {last.user} :
          /\ session[b] = WAITING_FILE
          /\ b \in DOMAIN user_selections
          /\ user_selections[b] \in Kinds

\* C19: whenever a user's session is in WAITING_FILE the user has an entry
\* in user_selections, and it is the kind chosen by the button press that
\* the session handled last (the press that moved it to WAITING_FILE: the
\* entry does not change while the session waits); so handle_file_upload
\* never takes its 'select a conversion type first' branch.
C19_WaitingHasSelection ==
    /\ [](/\ \A u \in Users :
                session[u] = WAITING_FILE =>
                    (u \in DOMAIN user_selections /\ user_selections[u] \in Kinds)
          /\ SentIn(last, "select_first") = {})
    /\ [][ \A u \in Users :
              /\ (session[u] # WAITING_FILE /\ session'[u] = WAITING_FILE) =>
                    ( /\ last'.user = u
                      /\ last'.update.kind = "callback"
                      /\ user_selections'[u] = last'.update.data )
              /\ (session[u] = WAITING_FILE /\ session'[u] = WAITING_FILE) =>
                    user_selections'[u] = user_selections[u]
              /\ (session[u] = WAITING_FILE /\ last'.user = u /\ IsUpload(last')) =>
                    last'.kind = user_selections[u] ]_vars

\* a user who chose PDF to Word uploaded a file that kind does not take:
\* the session still waits, with the entry of the press
C19_Witness ==
    /\ IsUpload(last)
    /\ last.state = WAITING_FILE
    /\ SentIn(last, "invalid_format") # {}
    /\ session[last.user] = WAITING_FILE
    /\ last.user \in DOMAIN user_selections
    /\ last.kind = user_selections[last.user]
    /\ last.kind = "pdf_to_word"

====
